---------------------------- MODULE Spec2Model ----------------------------
(***************************************************************************)
(* Model of xdelta3-dir-patcher (src/lib/xdelta3-dir-patcher.py): the      *)
(* archive adapters, the ExecutorRunner thread pool, and the diff / apply  *)
(* pipeline of XDelta3DirPatcher working on a small file system.           *)
(*                                                                         *)
(* A directory or archive on disk is a function from relative path strings *)
(* to nodes; the key "." is the directory itself.  A directory that does   *)
(* not exist is the empty function.                                        *)
(***************************************************************************)
EXTENDS Integers, Sequences, FiniteSets, TLC

(***************************************************************************)
(* Bounds of the model.                                                    *)
(***************************************************************************)
\* Depth of the directory chain d, d/s, d/s/f a snapshot may contain.
MaxDepth == 3
\* Number of symbolic links a directory walk that follows links passes
\* through before the path it has built is refused.
MaxLinksFollowed == 2
\* Largest pool width max(cpu_count() - 1, 1) that is explored.
MaxThreads == 2
\* Number of apply calls one process makes with the default runner.
MaxApplyCalls == 2
\* Number of threads that call expand on one adapter at the same time.
MaxExpandCalls == 3

(***************************************************************************)
(* Program constants.                                                      *)
(***************************************************************************)
PATCH_FOLDER == "xdelta"
METADATA_FILE == ".info"
sep == "/"
\* Mode of a file / directory the process creates without an explicit
\* mode (0666 and 0777 under the usual umask 022), and of a mkdtemp dir.
DefaultFileMode == 420
DefaultDirMode == 493
MkdtempMode == 448

(***************************************************************************)
(* State.                                                                  *)
(***************************************************************************)
VARIABLES
    fs,         \* disk: name of a directory or archive -> tree
    kind,       \* what the old and the new snapshot are: dir, tar or zip
    cpus,       \* thread_count of every ExecutorRunner of this host
    args,       \* the arguments of the current invocation of run
    pc,         \* where the main thread is
    archives,   \* the adapters that are open: old, new, patch
    todo,       \* the names the submitting loop of diff / apply has left
    tasks,      \* every task submitted, in submission order, with its state
    shut,       \* the runners whose executor has been shut down
    env,        \* the arguments and the platforms the invocations draw from
    calls,      \* how many times apply has been called by this process
    log         \* what has happened: codec command lines, opened archives

vars == <<fs, kind, cpus, args, pc, archives, todo, tasks, shut, env,
          calls, log>>

(***************************************************************************)
(* os.path on strings.                                                     *)
(***************************************************************************)
RECURSIVE LastSep(_, _)
\* Index of the last separator among the first i characters of p, or 0.
LastSep(p, i) ==
    IF i = 0 THEN 0
    ELSE IF SubSeq(p, i, i) = sep THEN i
    ELSE LastSep(p, i - 1)

\* os.path.dirname
dirname(p) ==
    LET i == LastSep(p, Len(p))
    IN IF i <= 1 THEN "" ELSE SubSeq(p, 1, i - 1)

\* os.path.join of a directory inside a tree and a relative name.  The
\* root of a tree is ".", which join / normalisation leaves out.
join(a, b) ==
    IF a = "." \/ a = "" THEN b
    ELSE IF b = "." THEN a
    ELSE a \o sep \o b

\* str.startswith
startswith(p, prefix) ==
    /\ Len(p) >= Len(prefix)
    /\ SubSeq(p, 1, Len(prefix)) = prefix

\* os.path.basename
basename(p) == SubSeq(p, LastSep(p, Len(p)) + 1, Len(p))

\* The key of the directory that holds key p of a tree.
ParentKey(p) == IF dirname(p) = "" THEN "." ELSE dirname(p)

RECURSIVE Ancestors(_)
\* Every proper ancestor key of p below the root, nearest first excluded
\* root: {"d", "d/s"} for "d/s/f".
Ancestors(p) ==
    IF dirname(p) = "" THEN {}
    ELSE {dirname(p)} \cup Ancestors(dirname(p))

RECURSIVE Split(_)
\* The components of a path: <<"d", "s">> for d/s.
Split(p) ==
    IF p = "" THEN << >>
    ELSE IF LastSep(p, Len(p)) = 0 THEN <<p>>
    ELSE Split(SubSeq(p, 1, LastSep(p, Len(p)) - 1)) \o
         <<SubSeq(p, LastSep(p, Len(p)) + 1, Len(p))>>

RECURSIVE JoinAll(_)
\* sep.join(parts)
JoinAll(parts) ==
    IF parts = << >> THEN ""
    ELSE IF Len(parts) = 1 THEN parts[1]
    ELSE parts[1] \o sep \o JoinAll(Tail(parts))

\* The number of leading components two paths share.
CommonPrefix(a, b) ==
    CHOOSE n \in 0..Len(a) :
        /\ n <= Len(b)
        /\ \A i \in 1..n : a[i] = b[i]
        /\ (n < Len(a) /\ n < Len(b)) => a[n + 1] # b[n + 1]

\* os.path.relpath(p, start): one ".." for every component of start that
\* p does not share, then what is left of p; "." when nothing is left.
relpath(p, start) ==
    LET n == CommonPrefix(Split(p), Split(start))
        parts == [i \in 1..(Len(Split(start)) - n) |-> ".."] \o
                 SubSeq(Split(p), n + 1, Len(Split(p)))
    IN IF parts = << >> THEN "." ELSE JoinAll(parts)

(***************************************************************************)
(* Nodes and trees.                                                        *)
(***************************************************************************)
\* A node carries its permission bits and its owner; the constructors give
\* the owner root.
FileNode(content, mode) ==
    [kind |-> "file", data |-> content, mode |-> mode, uid |-> 0, gid |-> 0]
LinkNode(target) ==
    [kind |-> "link", data |-> target, mode |-> 511, uid |-> 0, gid |-> 0]
DirNode(mode) ==
    [kind |-> "dir", data |-> "", mode |-> mode, uid |-> 0, gid |-> 0]

\* The effective user of the process; its group has the same number.
Euid == args.euid

\* A node the process creates belongs to its effective user and group.
Created(node) == [node EXCEPT !.uid = Euid, !.gid = Euid]

\* A tree whose every entry belongs to user and group u.
OwnedBy(t, u) == [p \in DOMAIN t |-> [t[p] EXCEPT !.uid = u, !.gid = u]]

NoTree == << >>
EmptyDir(mode) == "." :> DirNode(mode)

lexists(t, p) == p \in DOMAIN t
islink(t, p) == lexists(t, p) /\ t[p].kind = "link"
\* The key a path resolves to when its last component is a symbolic link
\* (one level; a link target is relative to the link's directory).
Resolve(t, p) ==
    IF islink(t, p) THEN join(IF dirname(p) = "" THEN "." ELSE dirname(p),
                              t[p].data)
    ELSE p
\* os.path.isdir / isfile follow a symbolic link.
isdir(t, p) == lexists(t, Resolve(t, p)) /\ t[Resolve(t, p)].kind = "dir"
isfile(t, p) == lexists(t, Resolve(t, p)) /\ t[Resolve(t, p)].kind = "file"

\* Keys strictly below directory p.
Below(t, p) ==
    {q \in DOMAIN t : q # "." /\ (p = "." \/ startswith(q, p \o sep))}

Put(t, p, node) == (p :> node) @@ t
Drop(t, p) == [q \in DOMAIN t \ {p} |-> t[q]]


(***************************************************************************)
(* File system calls.  Each call either succeeds with a new tree or raises *)
(* an OSError and leaves the tree as it was.                               *)
(***************************************************************************)
\* os.makedirs(p, exist_ok=True): fails when p or one of its ancestors
\* exists and is not a directory.
MakedirsOk(t, p) ==
    \A q \in {p, "."} \cup Ancestors(p) : lexists(t, q) => t[q].kind = "dir"

MakedirsTree(t, p) ==
    [q \in DOMAIN t \cup {p, "."} \cup Ancestors(p) |->
        IF q \in DOMAIN t THEN t[q] ELSE Created(DirNode(DefaultDirMode))]

\* os.symlink(target, p): fails when p exists (FileExistsError) or its
\* directory does not.
SymlinkOk(t, p) == ~lexists(t, p) /\ isdir(t, ParentKey(p))
SymlinkTree(t, p, target) == Put(t, p, Created(LinkNode(target)))

\* open(p, O_WRONLY|O_CREAT|O_TRUNC) and write: follows a symbolic link at
\* p, keeps the mode and the owner of a file that exists, fails on a
\* directory or when the directory of the file is missing.
WriteOk(t, p) ==
    LET q == Resolve(t, p)
    IN /\ isdir(t, ParentKey(q))
       /\ ~isdir(t, q)
       /\ ~islink(t, q)

WriteTree(t, p, content) ==
    LET q == Resolve(t, p)
    IN Put(t, q, IF isfile(t, q) THEN [t[q] EXCEPT !.data = content]
                 ELSE Created(FileNode(content, DefaultFileMode)))

\* os.chmod(p, mode): follows a symbolic link.
ChmodOk(t, p) == lexists(t, Resolve(t, p))
ChmodTree(t, p, mode) ==
    LET q == Resolve(t, p)
    IN Put(t, q, [t[q] EXCEPT !.mode = mode])

\* os.lchown(p, uid, gid) does not follow a symbolic link.  A process with
\* CAP_CHOWN (euid 0, unless the host withholds the capability) may give a
\* path to anyone; any other process may only leave a path of its own with
\* itself and its group, and is denied otherwise (PermissionError).
LchownOk(t, p, uid, gid) ==
    /\ lexists(t, p)
    /\ \/ (Euid = 0 /\ args.cap_chown)
       \/ (t[p].uid = Euid /\ uid = Euid /\ gid = Euid)
LchownTree(t, p, uid, gid) == Put(t, p, [t[p] EXCEPT !.uid = uid, !.gid = gid])

\* os.remove(p): fails on a directory or a missing path.
RemoveOk(t, p) == lexists(t, p) /\ t[p].kind # "dir"

\* os.rmdir(p): fails unless p is an empty directory.
RmdirOk(t, p) == lexists(t, p) /\ t[p].kind = "dir" /\ Below(t, p) = {}

(***************************************************************************)
(* The XDelta3 codec (XDelta3Impl.diff / XDelta3Impl.apply run lib/xdelta3 *)
(* -e / -d).  A delta names the source it was encoded against; "" is the   *)
(* encoding without -s.                                                    *)
(***************************************************************************)
NoSource == ""
Encode(source, new) == "VCDIFF<" \o source \o ">" \o new

\* Every byte string a file of the model can hold before encoding.
Contents == {"c1", "c2"}
LinkTargets == {"t1", "t2"}
Plain == Contents \cup LinkTargets

\* Decoding succeeds when the delta needs no source or is given the source
\* it was encoded against.
DecodeOk(source, bytes) ==
    \E s \in Plain \cup {NoSource}, c \in Plain :
        /\ bytes = Encode(s, c)
        /\ s \in {NoSource, source}

Decode(source, bytes) ==
    CHOOSE c \in Plain :
        \E s \in Plain \cup {NoSource} : bytes = Encode(s, c)

(***************************************************************************)
(* Inputs: the snapshots.  The relative paths a snapshot may hold are the  *)
(* chain d, d/s, d/s/f, ... down to MaxDepth.                              *)
(***************************************************************************)
ChainNames == <<"d", "s", "f", "g">>

RECURSIVE ChainPath(_)
ChainPath(n) ==
    IF n = 1 THEN ChainNames[1]
    ELSE ChainPath(n - 1) \o sep \o ChainNames[n]

PathUniverse == {ChainPath(n) : n \in 1..MaxDepth}

Absent == [kind |-> "none", data |-> "", mode |-> 0, uid |-> 0, gid |-> 0]

\* The trees over PathUniverse whose leaves are drawn from leaves and whose
\* directories from dirs: every entry's parent is a directory of the tree.
Trees(leaves, dirs) ==
    LET shapes == {f \in [PathUniverse -> {Absent} \cup leaves \cup dirs] :
                     \A p \in PathUniverse :
                        (f[p] # Absent /\ dirname(p) # "")
                            => f[dirname(p)].kind = "dir"}
    IN {[p \in {q \in PathUniverse : f[q] # Absent} \cup {"."} |->
            IF p = "." THEN DirNode(DefaultDirMode) ELSE f[p]] : f \in shapes}

\* Modes a file or directory of the new snapshot may carry; none is a mode
\* the process gives by default.
FileModes == {384}
DirModes == {448}

\* Old snapshots: one content, one link target, default modes.
OldSnapshots ==
    Trees({FileNode("c1", DefaultFileMode), LinkNode("t1")},
          {DirNode(DefaultDirMode)})

\* New snapshots: content and link target may equal the old ones or differ.
NewSnapshots ==
    Trees({FileNode(c, m) : c \in Contents, m \in FileModes}
            \cup {LinkNode(l) : l \in LinkTargets},
          {DirNode(m) : m \in DirModes})

AdapterKinds == {"dir", "tar", "zip"}

(***************************************************************************)
(* A sequence of file system calls made by one task: the result carries    *)
(* the tree so far and whether a call has raised; after a raise the        *)
(* remaining calls of the sequence are skipped.                            *)
(***************************************************************************)
Ok(t) == [ok |-> TRUE, t |-> t]
Fail(t) == [ok |-> FALSE, t |-> t]

makedirs(r, p) ==
    IF ~r.ok THEN r
    ELSE IF MakedirsOk(r.t, p) THEN Ok(MakedirsTree(r.t, p)) ELSE Fail(r.t)

symlink(r, target, p) ==
    IF ~r.ok THEN r
    ELSE IF SymlinkOk(r.t, p) THEN Ok(SymlinkTree(r.t, p, target))
    ELSE Fail(r.t)

write(r, p, content) ==
    IF ~r.ok THEN r
    ELSE IF WriteOk(r.t, p) THEN Ok(WriteTree(r.t, p, content)) ELSE Fail(r.t)

chmod(r, p, mode) ==
    IF ~r.ok THEN r
    ELSE IF ChmodOk(r.t, p) THEN Ok(ChmodTree(r.t, p, mode)) ELSE Fail(r.t)

lchown(r, p, uid, gid) ==
    IF ~r.ok THEN r
    ELSE IF LchownOk(r.t, p, uid, gid) THEN Ok(LchownTree(r.t, p, uid, gid))
    ELSE Fail(r.t)

\* try: lchown(p, uid, gid) / except PermissionError: pass
lchown_quiet(r, p, uid, gid) ==
    IF ~r.ok THEN r
    ELSE IF ~lexists(r.t, p) THEN Fail(r.t)
    ELSE Ok(lchown(r, p, uid, gid).t)

remove(r, p) ==
    IF ~r.ok THEN r
    ELSE IF RemoveOk(r.t, p) THEN Ok(Drop(r.t, p)) ELSE Fail(r.t)

rmdir(r, p) ==
    IF ~r.ok THEN r
    ELSE IF RmdirOk(r.t, p) THEN Ok(Drop(r.t, p)) ELSE Fail(r.t)

(***************************************************************************)
(* Archive adapters: the listing (members) each builds when it is opened.  *)
(* An entry is what DirListing / add_file record for one key.              *)
(***************************************************************************)
NoPermissions == 0 - 1
\* uid / gid of an entry whose adapter records None.
NoId == 0 - 1

Entry(node, permissions, uid, gid, is_link) ==
    [is_dir |-> node.kind = "dir",
     is_file |-> node.kind # "dir",
     is_link |-> is_link,
     link_target |-> IF is_link THEN node.data ELSE "",
     permissions |-> permissions,
     uid |-> uid,
     gid |-> gid,
     data |-> TRUE]

\* The non-root keys of a tree.
Keys(t) == DOMAIN t \ {"."}

Range(q) == {q[i] : i \in DOMAIN q}

\* All orderings of a finite set of keys.
Orders(S) ==
    {o \in [1..Cardinality(S) -> S] : \A i, j \in DOMAIN o : i # j => o[i] # o[j]}

\* The key orders os.walk can produce (top down): a directory precedes what
\* it holds, the files and links of a directory precede its subdirectories,
\* and the subtree of one subdirectory is listed before the next one.
WalkOrders(t) ==
    {o \in Orders(Keys(t)) :
        \A i, j \in DOMAIN o :
            /\ (o[i] = dirname(o[j])) => i < j
            /\ (/\ dirname(o[i]) = dirname(o[j])
                /\ t[o[i]].kind # "dir" /\ t[o[j]].kind = "dir") => i < j
            /\ (/\ i < j /\ dirname(o[i]) = dirname(o[j])
                /\ t[o[i]].kind = "dir" /\ t[o[j]].kind = "dir")
                 => \A k \in DOMAIN o : startswith(o[k], o[i] \o sep) => k < j}

\* The order in which tarfile.add stores a tree: a directory, then what it
\* holds; of two unrelated names the shorter one first.
RECURSIVE Sorted(_)
Sorted(S) ==
    IF S = {} THEN << >>
    ELSE LET first == CHOOSE k \in S :
                 \A q \in S \ {k} :
                     \/ startswith(q, k \o sep)
                     \/ (~startswith(k, q \o sep) /\ Len(k) <= Len(q))
         IN <<first>> \o Sorted(S \ {first})

\* DirListing.dirs + DirListing.files of an adapter that links every entry
\* to its directory as it lists it: the directories in key order, then the
\* files in key order.
ListedChildren(keys, t, k) ==
    SelectSeq(keys, LAMBDA c : ParentKey(c) = k /\ t[c].kind = "dir") \o
    SelectSeq(keys, LAMBDA c : ParentKey(c) = k /\ t[c].kind # "dir")

\* The directories of a listing, with its root.
Folders(t) == {k \in DOMAIN t : t[k].kind = "dir"} \cup {"."}

\* os.walk that is told to follow symbolic links to directories.
followlinks_set == TRUE

\* os.walk(top, topdown=True, onerror=None, followlinks=False)
followlinks == FALSE

\* The union of a set of trees whose keys are apart.
MergeAll(S) ==
    [p \in UNION {DOMAIN f : f \in S} |-> (CHOOSE f \in S : p \in DOMAIN f)[p]]

RECURSIVE WalkBelow(_, _, _, _)
\* os.walk below the directory at path top, which is the directory real of
\* the tree: every name in it is reported with what lstat says of it; a
\* directory is walked in turn, a symbolic link to a directory only when
\* followlinks is set, and then the walk reports it as a directory.
WalkBelow(t, top, real, fuel) ==
    MergeAll({IF t[c].kind = "dir"
              THEN (join(top, basename(c)) :> t[c]) @@
                   WalkBelow(t, join(top, basename(c)), c, fuel)
              ELSE IF /\ t[c].kind = "link" /\ isdir(t, c)
                      /\ followlinks /\ fuel > 0
              THEN (join(top, basename(c)) :> t[Resolve(t, c)]) @@
                   WalkBelow(t, join(top, basename(c)), Resolve(t, c),
                             fuel - 1)
              ELSE join(top, basename(c)) :> t[c] :
                 c \in {k \in DOMAIN t \ {"."} : ParentKey(k) = real}})

\* What the loop over walk(self.path) of XDelta3FsImpl.members meets: the
\* tree of the relative paths the walk reports.
Walk(t) == ("." :> t["."]) @@ WalkBelow(t, ".", ".", MaxLinksFollowed)

\* XDelta3FsImpl.members
FsMembers(t, order) ==
    [keys |-> order,
     ent |-> [k \in Keys(t) |-> Entry(t[k], t[k].mode, t[k].uid, t[k].gid,
                                      t[k].kind = "link")],
     children |-> [k \in Folders(t) |-> ListedChildren(order, t, k)]]

\* The members of a tar archive in the order they were added: the tree,
\* then the metadata file.
TarOrder(t) ==
    Sorted(Keys(t) \ {METADATA_FILE}) \o
        (IF METADATA_FILE \in DOMAIN t THEN <<METADATA_FILE>> ELSE << >>)

RECURSIVE SortByLen(_)
\* sorted(names, key=len) of a sequence: stable.
SortByLen(names) ==
    IF names = << >> THEN << >>
    ELSE LET i == CHOOSE i \in DOMAIN names :
                    \A j \in DOMAIN names :
                        \/ Len(names[i]) < Len(names[j])
                        \/ (Len(names[i]) = Len(names[j]) /\ i <= j)
         IN <<names[i]>> \o
            SortByLen([j \in 1..(Len(names) - 1) |->
                          IF j < i THEN names[j] ELSE names[j + 1]])

RECURSIVE AncestorSeq(_)
\* The directories above p, from the top down: <<"d", "d/s">> for d/s/f.
AncestorSeq(p) ==
    IF dirname(p) = "" THEN << >>
    ELSE AncestorSeq(dirname(p)) \o <<dirname(p)>>

RECURSIVE CreatedFolders(_, _, _)
\* XDelta3TarImpl.members, the loop over the files with
\* _create_dir_structure_to: when the directory of a file is not listed,
\* every segment of its path that is not listed is created.  have is what
\* is listed so far; the result names the created folders in order.
CreatedFolders(t, files, have) ==
    IF files = << >> THEN << >>
    ELSE IF dirname(Head(files)) = "" \/ dirname(Head(files)) \in have
    THEN CreatedFolders(t, Tail(files), have)
    ELSE SelectSeq(AncestorSeq(Head(files)), LAMBDA q : q \notin have) \o
         CreatedFolders(t, Tail(files),
                        have \cup Range(AncestorSeq(Head(files))))

\* The members of a tar archive that are not directories, in the order of
\* the archive, and its directory members.
TarFiles(t) == SelectSeq(TarOrder(t), LAMBDA k : t[k].kind # "dir")
TarFolders(t) == {k \in Keys(t) : t[k].kind = "dir"}

\* A DirListing that members creates for a path the archive has no member
\* for: set_metadata is never called on it.
CreatedFolder ==
    [is_dir |-> TRUE, is_file |-> FALSE, is_link |-> FALSE, link_target |-> "",
     permissions |-> NoPermissions, uid |-> NoId, gid |-> NoId, data |-> FALSE]

\* XDelta3TarImpl.members, dirs + files of the DirListing of k: a directory
\* member is added to its parent when the parent is listed before it (the
\* root, or a directory member), a created folder and a file always.
TarChildren(t, created, k) ==
    SelectSeq(SortByLen(SelectSeq(TarOrder(t), LAMBDA c : t[c].kind = "dir")),
              LAMBDA c : ParentKey(c) = k /\ (k = "." \/ k \in TarFolders(t)))
    \o SelectSeq(created, LAMBDA c : ParentKey(c) = k)
    \o SelectSeq(TarFiles(t), LAMBDA c : ParentKey(c) = k)

\* XDelta3TarImpl.members: the members in the order of the archive, then
\* the folders that were created for files whose directory is no member.
TarMembersWith(t, created) ==
    [keys |-> TarOrder(t) \o created,
     ent |-> [k \in Keys(t) \cup Range(created) |->
                IF k \in Keys(t)
                THEN Entry(t[k], t[k].mode, t[k].uid, t[k].gid,
                           t[k].kind = "link")
                ELSE CreatedFolder],
     children |-> [k \in TarFolders(t) \cup Range(created) \cup {"."} |->
                     TarChildren(t, created, k)]]

TarMembers(t) == TarMembersWith(t, CreatedFolders(t, TarFiles(t), TarFolders(t)))

\* XDelta3ZipImpl.members, for an archive that records every directory:
\* no permissions, no owner, and is_link is never set.
ZipMembers(t) ==
    [keys |-> SortByLen(Sorted(Keys(t))),
     ent |-> [k \in Keys(t) |-> Entry(t[k], NoPermissions, NoId, NoId, FALSE)],
     children |-> [k \in Folders(t) |->
                     ListedChildren(SortByLen(Sorted(Keys(t))), t, k)]]

\* The names XDelta3ZipImpl.create writes for the walk of base_dir in the
\* given order: the filenames of each directory, which are the names that
\* are not directories; a symbolic link to a directory is among the
\* dirnames.
ZipCreateNames(t, order) == SelectSeq(order, LAMBDA k : ~isdir(t, k))

RECURSIVE ZipWrite(_, _, _)
\* archive_object.write(full_path, internal_path) for each name in turn:
\* write stats the path, following a symbolic link, and records a regular
\* file under the relative path; it raises for a link that dangles.
ZipWrite(t, names, r) ==
    IF names = << >> THEN r
    ELSE IF ~isfile(t, Head(names)) THEN Fail(r.t)
    ELSE ZipWrite(t, Tail(names),
                  Ok(Put(r.t, Head(names), t[Resolve(t, Head(names))])))

\* XDelta3ZipImpl.create(base_dir) on a new archive: files at their
\* relative paths and no member for any directory.
ZipCreate(t, order) ==
    ZipWrite(t, ZipCreateNames(t, order), Ok("." :> t["."]))

\* The members of a zip archive whose directory has no member: at such a
\* name XDelta3ZipImpl.members raises KeyError from items[dir_name] or
\* items[parent_dir].
ZipUnlisted(t) == {k \in Keys(t) : ParentKey(k) \notin DOMAIN t}

(***************************************************************************)
(* Archive adapters: expand(key, extraction_path).  e is the entry of the  *)
(* key, src the tree or member table behind the adapter, r the result      *)
(* holding the extraction directory.                                       *)
(***************************************************************************)
\* XDelta3FsImpl.expand
ExpandFs(e, src, key, r) ==
    IF e.is_link THEN
        symlink(makedirs(r, ParentKey(key)), e.link_target, key)
    ELSE IF e.is_file THEN
        \* copy2(source_path, target_path, follow_symlinks=False)
        IF lexists(src, key) /\ src[key].kind = "file"
        THEN chmod(write(makedirs(r, ParentKey(key)), key, src[key].data),
                   key, src[key].mode)
        ELSE Fail(makedirs(r, ParentKey(key)).t)
    ELSE
        \* makedirs(target_path), copymode, copystat, lchown
        IF lexists(src, key)
        THEN lchown_quiet(chmod(makedirs(r, key), key, src[key].mode),
                          key, e.uid, e.gid)
        ELSE Fail(makedirs(r, key).t)

\* TarFile.chown, called by TarFile.extract
TarChown(r, key, uid, gid) ==
    IF Euid = 0 THEN lchown_quiet(r, key, uid, gid) ELSE r

\* XDelta3TarImpl.expand of a key that has a member behind it
ExpandTar(e, src, key, r) ==
    IF e.is_link THEN
        symlink(makedirs(makedirs(r, "."), ParentKey(key)), e.link_target, key)
    ELSE IF e.is_dir THEN
        makedirs(makedirs(r, "."), key)
    ELSE
        \* TarFile.extract: parents, bytes, then the member's owner when the
        \* process is root (a failure is not raised) and the member's mode
        chmod(TarChown(write(makedirs(makedirs(r, "."), ParentKey(key)),
                             key, src[key].data),
                       key, e.uid, e.gid),
              key, src[key].mode)

\* XDelta3ZipImpl.expand: ZipFile.extract restores neither a mode nor a
\* symbolic link (a link member comes out as a file holding the target).
ExpandZip(e, src, key, r) ==
    IF e.is_dir THEN makedirs(makedirs(r, "."), key)
    ELSE write(makedirs(makedirs(r, "."), ParentKey(key)), key, src[key].data)

RECURSIVE expand(_, _, _, _)
RECURSIVE ExpandTarChildren(_, _, _, _)
\* XDelta3TarImpl._expand_children, the loop over dirs + files
ExpandTarChildren(adapter, src, items, r) ==
    IF items = << >> THEN r
    ELSE ExpandTarChildren(adapter, src, Tail(items),
                           expand(adapter, src, Head(items), r))

\* XDelta3TarImpl.expand of a folder the archive has no member for: the
\* folder is made and everything listed below it is expanded.
ExpandTarFolder(adapter, src, key, r) ==
    ExpandTarChildren(adapter, src, adapter.children[key],
                      makedirs(makedirs(r, key), "."))

\* expand(None, extraction_path), the root key.  The filesystem adapter
\* makes the extraction directory and gives it the attributes of the
\* snapshot's directory; the tar adapter expands the entries listed at the
\* top; the zip adapter asks ZipFile.extract for the member None (KeyError).
ExpandRoot(adapter, src, r) ==
    IF adapter.kind = "dir"
    THEN lchown_quiet(chmod(makedirs(r, "."), ".", src["."].mode),
                      ".", src["."].uid, src["."].gid)
    ELSE IF adapter.kind = "tar"
    THEN ExpandTarChildren(adapter, src, adapter.children["."],
                           makedirs(r, "."))
    ELSE Fail(makedirs(r, ".").t)

expand(adapter, src, key, r) ==
    IF ~r.ok THEN r
    ELSE IF key = "." THEN ExpandRoot(adapter, src, r)
    ELSE IF key \notin DOMAIN adapter.ent THEN Fail(r.t)
    ELSE IF adapter.kind = "tar" /\ ~adapter.ent[key].data
         THEN ExpandTarFolder(adapter, src, key, r)
    \* extracting bytes needs the archive handle, which close() releases
    ELSE IF /\ adapter.kind \in {"tar", "zip"} /\ ~adapter.open
            /\ adapter.ent[key].is_file /\ ~adapter.ent[key].is_link
         THEN Fail(r.t)
    ELSE IF adapter.kind = "dir" THEN ExpandFs(adapter.ent[key], src, key, r)
    ELSE IF adapter.kind = "tar" THEN ExpandTar(adapter.ent[key], src, key, r)
    ELSE ExpandZip(adapter.ent[key], src, key, r)

(***************************************************************************)
(* The initial state.                                                      *)
(***************************************************************************)
Disk == {"A", "B", "T", "bundle", "target", "old_src", "new_src",
         "delta_expanded"}

\* threading.RLock() of an adapter: the thread that owns it, 0 for none,
\* and how many times that thread has acquired it.
Unlocked == [owner |-> 0, count |-> 0]

Closed == [kind |-> "none", root |-> "", open |-> FALSE, keys |-> << >>,
           ent |-> << >>, children |-> << >>, lock |-> Unlocked]

NoArgs == [action |-> "", ignore_euid |-> FALSE, euid |-> 0,
           cap_chown |-> TRUE, os_name |-> "posix", old_dir |-> "",
           target_dir |-> "", root_patch_dir |-> ""]

\* The state before the first invocation: the two snapshots are on disk,
\* each as one of the given kinds; pairs are the (old, new) snapshots and e
\* names what the invocations may be given and what is at the output path
\* of diff.
InitWith(old_kinds, new_kinds, pairs, e) ==
    /\ kind \in [{"A", "B"} -> old_kinds \cup new_kinds]
    /\ kind.A \in old_kinds
    /\ kind.B \in new_kinds
    /\ \E ab \in pairs :
          fs = [n \in Disk |-> IF n = "A" THEN ab[1]
                               ELSE IF n = "B" THEN ab[2]
                               ELSE IF n = "bundle" THEN e.bundle
                               ELSE NoTree]
    /\ cpus \in 1..MaxThreads
    /\ env = e
    /\ args = NoArgs
    /\ pc = "start"
    /\ archives = [a \in {"old", "new", "patch"} |-> Closed]
    /\ todo = << >>
    /\ tasks = << >>
    /\ shut = {}
    /\ calls = 0
    /\ log = {}

(***************************************************************************)
(* Opening an archive: XDeltaArchive.get_archive_instance probes the       *)
(* adapters and the adapter that matches lists its members.                *)
(***************************************************************************)
KindOnDisk(name) ==
    IF name \in {"A", "B"} THEN kind[name]
    ELSE IF fs[name] = NoTree THEN "none"
    ELSE IF name = "bundle" THEN "tar"
    ELSE "dir"

\* The adapters XDeltaArchive(name) may return: one per key order the
\* directory walk can produce.
Opened(name) ==
    LET k == KindOnDisk(name)
        m == IF k = "dir" THEN {FsMembers(Walk(fs[name]), o) :
                                   o \in WalkOrders(Walk(fs[name]))}
             ELSE IF k = "tar" THEN {TarMembers(fs[name])}
             ELSE {ZipMembers(fs[name])}
    IN {[kind |-> k, root |-> name, open |-> TRUE, keys |-> x.keys,
         ent |-> x.ent, children |-> x.children, lock |-> Unlocked] :
            x \in m}

\* XDeltaArchive.__exit__ -> close(): the listing stays, the handle goes.
Close(adapter) == [adapter EXCEPT !.open = FALSE]

(***************************************************************************)
(* ExecutorRunner.                                                         *)
(***************************************************************************)
\* diff and apply each have one default runner, made when the function is
\* defined; the runner of the current call is named after it.
Runner == args.action

Task(runner, fn, arg) ==
    [runner |-> runner, fn |-> fn, arg |-> arg, call |-> calls,
     st |-> "queued", aux |-> ""]

Futures(runner) == {i \in DOMAIN tasks : tasks[i].runner = runner}
Finished(i) == tasks[i].st \in {"done", "failed"}

\* thread_count = max(cpu_count() - 1, 1) is cpus here.
thread_count == cpus

\* add_task on an executor that takes work after shutdown.
add_task_after_shutdown ==
    /\ pc = "add"
    /\ todo # << >>
    /\ tasks' = Append(tasks, Task(Runner, Head(todo).fn, Head(todo).arg))
    /\ todo' = Tail(todo)
    /\ UNCHANGED <<fs, kind, cpus, args, pc, archives, shut, env, calls, log>>

\* ExecutorRunner.add_task: executor.submit raises once the executor has
\* been shut down.
add_task ==
    /\ pc = "add"
    /\ todo # << >>
    /\ IF Runner \in shut
       THEN /\ pc' = "failed"
            /\ archives' = [a \in DOMAIN archives |-> Close(archives[a])]
            /\ log' = log \cup {[op |-> "refused", file |-> Head(todo).arg,
                                 source |-> FALSE, call |-> calls]}
            /\ UNCHANGED <<tasks, todo>>
       ELSE /\ tasks' = Append(tasks, Task(Runner, Head(todo).fn, Head(todo).arg))
            /\ todo' = Tail(todo)
            /\ UNCHANGED <<pc, archives, log>>
    /\ UNCHANGED <<fs, kind, cpus, args, shut, env, calls>>

\* join_all, first part: executor.shutdown(False).
join_all_shutdown ==
    /\ pc = "add"
    /\ todo = << >>
    /\ shut' = shut \cup {Runner}
    /\ pc' = "join"
    /\ UNCHANGED <<fs, kind, cpus, args, archives, todo, tasks, env, calls, log>>

\* join_all, the loop over as_completed(self.futures): a finished future
\* that holds an exception is yielded and the exception raised, which
\* leaves the with block of the caller and closes the archives.
join_all_raise ==
    /\ pc = "join"
    /\ \E i \in Futures(Runner) : tasks[i].st = "failed"
    /\ pc' = "failed"
    /\ archives' = [a \in DOMAIN archives |-> Close(archives[a])]
    /\ UNCHANGED <<fs, kind, cpus, args, todo, tasks, shut, env, calls, log>>

\* join_all that does not look at the exception of a future.
join_all_return_unchecked ==
    /\ pc = "join"
    /\ \A i \in Futures(Runner) : Finished(i)
    /\ pc' = "joined"
    /\ UNCHANGED <<fs, kind, cpus, args, archives, todo, tasks, shut, env,
                   calls, log>>

\* join_all returns when as_completed has yielded every future and none
\* held an exception.
join_all_return ==
    /\ pc = "join"
    /\ \A i \in Futures(Runner) : tasks[i].st = "done"
    /\ pc' = "joined"
    /\ UNCHANGED <<fs, kind, cpus, args, archives, todo, tasks, shut, env,
                   calls, log>>

\* A free thread of the pool takes the oldest queued work item.
TaskStart ==
    \E i \in DOMAIN tasks :
        /\ tasks[i].st = "queued"
        /\ \A j \in Futures(tasks[i].runner) : j < i => tasks[j].st # "queued"
        /\ Cardinality({j \in Futures(tasks[i].runner) : tasks[j].st = "running"})
              < thread_count
        /\ tasks' = [tasks EXCEPT ![i].st = "running"]
        /\ UNCHANGED <<fs, kind, cpus, args, pc, archives, todo, shut, env,
                       calls, log>>

(***************************************************************************)
(* diff.                                                                   *)
(***************************************************************************)
Event(op, file, source) ==
    [op |-> op, file |-> file, source |-> source, call |-> calls]

\* run with action diff, and diff up to its submitting loop: the staging
\* directories are made and both snapshots opened.
run_diff ==
    /\ pc = "start"
    /\ \E euid \in env.diff_euid, cap_chown \in env.cap_chown :
          /\ args' = [NoArgs EXCEPT !.action = "diff", !.old_dir = "A",
                                    !.euid = euid, !.cap_chown = cap_chown]
          /\ fs' = [fs EXCEPT
                !.target = OwnedBy(makedirs(Ok(EmptyDir(MkdtempMode)),
                                            PATCH_FOLDER).t, euid),
                !.old_src = OwnedBy(EmptyDir(MkdtempMode), euid),
                !.new_src = OwnedBy(EmptyDir(MkdtempMode), euid)]
    /\ \E old \in Opened("A"), new \in Opened("B") :
          /\ archives' = [archives EXCEPT !.old = old, !.new = new]
          /\ todo' = [i \in DOMAIN new.keys |->
                         [fn |-> "_find_file_delta", arg |-> new.keys[i]]]
    /\ log' = log \cup {Event("open", "A", FALSE), Event("open", "B", FALSE)}
    /\ pc' = "add"
    /\ UNCHANGED <<kind, cpus, tasks, shut, env, calls>>

\* XDelta3DirPatcher.copy_attributes(src_file, dest_file): copymode and
\* copystat put the mode of src_file on dest_file, lchown its owner.
copy_attributes(src, src_file, r, dest_file) ==
    IF ~r.ok THEN r
    ELSE IF ~lexists(src, Resolve(src, src_file)) THEN Fail(r.t)
    ELSE lchown(chmod(r, dest_file, src[Resolve(src, src_file)].mode),
                dest_file, src[Resolve(src, src_file)].uid,
                src[Resolve(src, src_file)].gid)

\* _find_file_delta, the end: once the entry is staged (rt) the expanded
\* inputs are removed; the old path is forgotten when it is no regular
\* file.  enc is the codec command line that has been run, if any, and
\* what run_command prints when the command fails.
FindFileDeltaResult(filename, rn, ro, r1, rt, fail) ==
    LET regular == ~islink(rn.t, filename) /\ ~isdir(rn.t, filename)
        has_old == isfile(ro.t, filename)
        ro2 == IF rt.ok /\ (~regular \/ has_old)
                  /\ (isfile(ro.t, filename) \/ islink(ro.t, filename))
               THEN remove(ro, filename) ELSE ro
        rn2 == IF rt.ok /\ (isfile(rn.t, filename) \/ islink(rn.t, filename))
               THEN remove(rn, filename) ELSE rn
    IN [ok |-> rt.ok /\ ro2.ok /\ rn2.ok,
        old_src |-> ro2.t, new_src |-> rn2.t, target |-> rt.t,
        enc |-> IF r1.ok /\ regular
                THEN {Event("encode", filename, has_old)} \cup
                     (IF fail THEN {Event("XDELTA FAIL", filename, has_old)}
                      ELSE {})
                ELSE {}]

\* _find_file_delta, the staging of one entry below xdelta: a link is
\* reproduced, a directory gives its attributes to target_dir, a regular
\* file is encoded against the old file when there is one.  fail tells
\* whether lib/xdelta3 -e exits with a non-zero code.
FindFileDeltaTarget(filename, rn, ro, r1, fail) ==
    LET target_path == join(PATCH_FOLDER, filename)
        has_old == isfile(ro.t, filename)
        source == IF has_old THEN ro.t[Resolve(ro.t, filename)].data
                  ELSE NoSource
    IN FindFileDeltaResult(filename, rn, ro, r1,
          IF islink(rn.t, filename) THEN
              symlink(r1, rn.t[filename].data, target_path)
          ELSE IF isdir(rn.t, filename) THEN
              copy_attributes(rn.t, filename, r1, dirname(target_path))
          ELSE IF ~isfile(rn.t, filename) THEN Fail(r1.t)
          \* run_command raises CalledProcessError on a non-zero exit
          ELSE IF fail THEN Fail(r1.t)
          ELSE copy_attributes(rn.t, filename,
                   write(r1, target_path,
                         Encode(source, rn.t[Resolve(rn.t, filename)].data)),
                   target_path),
          fail)

\* _find_file_delta, the directory of target_path is made when missing.
FindFileDeltaTargetDir(filename, rn, ro, target_root, fail) ==
    LET target_dir == dirname(join(PATCH_FOLDER, filename))
    IN FindFileDeltaTarget(filename, rn, ro,
          IF ro.ok /\ ~lexists(target_root, target_dir)
          THEN makedirs(Ok(target_root), target_dir)
          ELSE [ok |-> ro.ok, t |-> target_root],
          fail)

\* _find_file_delta, the old entry is expanded when the old listing has it.
FindFileDeltaOld(filename, old, old_root, target_root, rn, fail) ==
    FindFileDeltaTargetDir(filename, rn,
        IF rn.ok /\ filename \in DOMAIN old.ent
        THEN expand(old, fs[old.root], filename, Ok(old_root))
        ELSE [ok |-> rn.ok, t |-> old_root],
        target_root, fail)

\* What _find_file_delta does to the three staging directories, from the
\* expansion of the new entry on.
FindFileDelta(filename, old, new, old_root, new_root, target_root, fail) ==
    FindFileDeltaOld(filename, old, old_root, target_root,
                     expand(new, fs[new.root], filename, Ok(new_root)), fail)

\* The task _find_file_delta, run by a thread of the pool.
find_file_delta ==
    \E i \in DOMAIN tasks :
        /\ tasks[i].st = "running"
        /\ tasks[i].fn = "_find_file_delta"
        /\ \E fail \in env.codec_fail :
           \E d \in {FindFileDelta(tasks[i].arg, archives.old, archives.new,
                                   fs.old_src, fs.new_src, fs.target, fail)} :
              /\ fs' = [fs EXCEPT !.old_src = d.old_src,
                                  !.new_src = d.new_src,
                                  !.target = d.target]
              /\ tasks' = [tasks EXCEPT
                              ![i].st = IF d.ok THEN "done" ELSE "failed"]
              /\ log' = log \cup d.enc
        /\ UNCHANGED <<kind, cpus, args, pc, archives, todo, shut, env, calls>>

\* tarfile.add(delta_target_dir, arcname="xdelta"): the staged tree below
\* xdelta, and xdelta itself.
Packaged(target) ==
    [k \in {q \in DOMAIN target :
               q = PATCH_FOLDER \/ startswith(q, PATCH_FOLDER \o sep)}
        |-> target[k]]

\* diff after join_all: the source staging directories are removed, the
\* bundle is written, the staging area removed.
diff_package ==
    /\ pc = "joined"
    /\ args.action = "diff"
    /\ \E metadata \in env.metadata :
          fs' = [fs EXCEPT
                   !.old_src = NoTree,
                   !.new_src = NoTree,
                   !.target = NoTree,
                   !.bundle = IF metadata
                              THEN Put(Packaged(fs.target), METADATA_FILE,
                                       FileNode("c1", DefaultFileMode))
                              ELSE Packaged(fs.target)]
    /\ archives' = [a \in DOMAIN archives |-> Closed]
    /\ pc' = "diffed"
    /\ UNCHANGED <<kind, cpus, args, todo, tasks, shut, env, calls, log>>

(***************************************************************************)
(* apply.                                                                  *)
(***************************************************************************)
\* check_euid that never raises.
check_euid_never(ignore_euid, os_name, euid) == FALSE

\* XDelta3DirPatcher.check_euid with the default get_euid_method: TRUE
\* when it raises.  Off POSIX the method is lambda: None.
check_euid(ignore_euid, os_name, euid) ==
    (~ignore_euid) /\ (IF os_name # "nt" THEN euid # 0 ELSE TRUE)

\* The sort of the removal set without reverse=True.
SortByLenAscending(names) == SortByLen(names)

RECURSIVE SortByLenReverse(_)
\* list.sort(key=len, reverse=True): stable.
SortByLenReverse(names) ==
    IF names = << >> THEN << >>
    ELSE LET i == CHOOSE i \in DOMAIN names :
                    \A j \in DOMAIN names :
                        \/ Len(names[i]) > Len(names[j])
                        \/ (Len(names[i]) = Len(names[j]) /\ i <= j)
         IN <<names[i]>> \o
            SortByLenReverse([j \in 1..(Len(names) - 1) |->
                                 IF j < i THEN names[j] ELSE names[j + 1]])

\* apply, lines 1145-1148: "" is no root_patch_dir.
PatchRoot(root_patch_dir) ==
    IF root_patch_dir = "" THEN PATCH_FOLDER
    ELSE join(PATCH_FOLDER, root_patch_dir)

\* The delta_patch_root that apply hands to its tasks.
delta_patch_root == PatchRoot(args.root_patch_dir)

\* The patches of apply without the startswith test.
PatchesUnfiltered(keys, root) == SelectSeq(keys, LAMBDA p : p # "")

\* apply, lines 1167-1169
Patches(keys, root) ==
    SelectSeq(keys, LAMBDA p : p # "" /\ startswith(p, root))

\* apply, lines 1178-1181: filename[len(delta_patch_root) + len(sep):]
FilesInPatch(patches, root) ==
    {SubSeq(p, Len(root) + Len(sep) + 1, Len(p)) : p \in Range(patches)}

\* The removal list of apply without the test against files_in_patch.
RemovedItemsUnfiltered(old_keys, files_in_patch) ==
    SortByLenReverse(SelectSeq(old_keys, LAMBDA o : o # ""))

\* apply, lines 1186-1194
RemovedItems(old_keys, files_in_patch) ==
    SortByLenReverse(SelectSeq(old_keys,
                               LAMBDA o : o # "" /\ o \notin files_in_patch))

\* run with action apply, and apply up to its submitting loops.
run_apply ==
    /\ pc \in {"diffed", "applied"}
    /\ calls < MaxApplyCalls
    /\ calls' = calls + 1
    /\ \E fresh \in env.fresh :
          \* a new process has runners of its own
          /\ tasks' = IF fresh THEN << >> ELSE tasks
          /\ shut' = IF fresh THEN {} ELSE shut
    /\ \E ignore_euid \in env.ignore_euid, os_name \in env.os_name,
          euid \in env.euid, target_dir \in env.target_dir,
          cap_chown \in env.cap_chown, root_patch_dir \in env.root_patch_dir :
        /\ os_name = "nt" => euid = 0
        /\ args' = [action |-> "apply", ignore_euid |-> ignore_euid,
                    euid |-> euid, cap_chown |-> cap_chown,
                    os_name |-> os_name, old_dir |-> "A",
                    target_dir |-> target_dir,
                    root_patch_dir |-> root_patch_dir]
        /\ IF check_euid(ignore_euid, os_name, euid) THEN
               /\ pc' = "failed"
               /\ log' = log \cup {[op |-> "denied", file |-> "", source |-> FALSE,
                                    call |-> calls']}
               /\ UNCHANGED <<fs, archives, todo>>
           ELSE IF KindOnDisk(target_dir) \notin {"dir", "none"} THEN
               \* makedirs(target_dir) on a path that is a file
               /\ pc' = "failed"
               /\ fs' = [fs EXCEPT !.delta_expanded =
                                      OwnedBy(EmptyDir(MkdtempMode), euid)]
               /\ log' = log \cup {[op |-> "mkdtemp", file |-> "delta_expanded",
                                    source |-> FALSE, call |-> calls']}
               /\ UNCHANGED <<archives, todo>>
           ELSE
               /\ fs' = [fs EXCEPT
                           !.delta_expanded =
                               OwnedBy(EmptyDir(MkdtempMode), euid),
                           ![target_dir] =
                               IF @ = NoTree
                               THEN OwnedBy(EmptyDir(DefaultDirMode), euid)
                               ELSE @]
               /\ \E old \in Opened("A"), patch \in Opened("bundle") :
                     LET patches == Patches(patch.keys,
                                            PatchRoot(root_patch_dir))
                         removed ==
                             RemovedItems(old.keys,
                                 FilesInPatch(patches,
                                              PatchRoot(root_patch_dir)))
                     IN /\ archives' = [archives EXCEPT !.old = old,
                                                        !.patch = patch]
                        /\ todo' = [i \in DOMAIN removed |->
                                       [fn |-> "remove_item", arg |-> removed[i]]]
                                   \o [i \in DOMAIN patches |->
                                       [fn |-> "_apply_file_delta",
                                        arg |-> patches[i]]]
               /\ log' = log \cup
                    {[op |-> "mkdtemp", file |-> "delta_expanded",
                      source |-> FALSE, call |-> calls'],
                     [op |-> "open", file |-> "A", source |-> FALSE,
                      call |-> calls'],
                     [op |-> "open", file |-> "bundle", source |-> FALSE,
                      call |-> calls']}
               /\ pc' = "add"
    /\ UNCHANGED <<kind, cpus, env>>

\* copy_attributes_from_archive, the chmod: "if file_obj.permissions".
CopyPermissions(file_obj, r, target) ==
    IF file_obj.permissions > 0 THEN chmod(r, target, file_obj.permissions)
    ELSE r

\* copy_attributes_from_archive, "if file_obj.uid and file_obj.gid": lchown
\* is called.
CopiesOwner(file_obj) == file_obj.uid > 0 /\ file_obj.gid > 0

\* copy_attributes_from_archive where a PermissionError of lchown is
\* passed over whatever ignore_euid is.
copy_attributes_from_archive_quiet(archive_object, filename, r, target) ==
    IF ~r.ok THEN r
    ELSE IF ~CopiesOwner(archive_object.ent[filename])
    THEN CopyPermissions(archive_object.ent[filename], r, target)
    ELSE lchown_quiet(CopyPermissions(archive_object.ent[filename], r, target),
                      target, archive_object.ent[filename].uid,
                      archive_object.ent[filename].gid)

\* XDelta3DirPatcher.copy_attributes_from_archive: the permissions of the
\* bundle entry are put on the target when they are set, then its owner;
\* a PermissionError of lchown is passed over when ignore_euid is set.
copy_attributes_from_archive(archive_object, filename, r, target) ==
    IF ~r.ok THEN r
    ELSE IF ~CopiesOwner(archive_object.ent[filename])
    THEN CopyPermissions(archive_object.ent[filename], r, target)
    ELSE IF args.ignore_euid
    THEN lchown_quiet(CopyPermissions(archive_object.ent[filename], r, target),
                      target, archive_object.ent[filename].uid,
                      archive_object.ent[filename].gid)
    ELSE lchown(CopyPermissions(archive_object.ent[filename], r, target),
                target, archive_object.ent[filename].uid,
                archive_object.ent[filename].gid)

\* copy_attributes_from_archive reaches lchown and lchown is denied.
LchownDenied(archive_object, filename, r, target) ==
    /\ r.ok
    /\ CopiesOwner(archive_object.ent[filename])
    /\ CopyPermissions(archive_object.ent[filename], r, target).ok
    /\ ~LchownOk(CopyPermissions(archive_object.ent[filename], r, target).t,
                 target, archive_object.ent[filename].uid,
                 archive_object.ent[filename].gid)

\* _apply_file_delta, the end: the expanded patch file is removed once
\* it has been decoded.  dec is the codec command line that has been run,
\* and the PermissionError of lchown when there was one.
ApplyFileDeltaResult(patch_file, old, target_root, rs, rt, denied) ==
    LET rel_path == relpath(patch_file, delta_patch_root)
        regular == ~islink(rs.t, patch_file) /\ ~isdir(rs.t, patch_file)
        rs2 == IF rt.ok /\ regular THEN remove(rs, patch_file) ELSE rs
    IN [ok |-> rt.ok /\ rs2.ok, staging |-> rs2.t, target |-> rt.t,
        dec |-> (IF /\ rs.ok /\ regular
                    /\ makedirs(Ok(target_root), ParentKey(rel_path)).ok
                 THEN {Event("decode", rel_path, isfile(old, rel_path))}
                 ELSE {})
                \cup (IF denied
                      THEN {Event("PermissionError", patch_file, FALSE)}
                      ELSE {})]

\* _apply_file_delta on the expanded patch file: a link is reproduced in
\* the target, a directory made and given the attributes of the bundle
\* entry, a regular file decoded against the old file when there is one.
ApplyFileDeltaTarget(archive_object, patch_file, old, target_root, rs) ==
    LET rel_path == relpath(patch_file, delta_patch_root)
        target_dir == ParentKey(relpath(patch_file, delta_patch_root))
        r0 == [ok |-> rs.ok, t |-> target_root]
        source == IF isfile(old, relpath(patch_file, delta_patch_root))
                  THEN old[Resolve(old, relpath(patch_file,
                                                delta_patch_root))].data
                  ELSE NoSource
    IN ApplyFileDeltaResult(patch_file, old, target_root, rs,
          IF islink(rs.t, patch_file) THEN
              symlink(IF rs.ok /\ rel_path # target_dir
                         /\ ~isdir(target_root, target_dir)
                      THEN makedirs(r0, target_dir) ELSE r0,
                      rs.t[patch_file].data, rel_path)
          ELSE IF isdir(rs.t, patch_file) THEN
              copy_attributes_from_archive(archive_object, patch_file,
                                           makedirs(r0, rel_path), rel_path)
          ELSE IF ~isfile(rs.t, patch_file) THEN
              Fail(makedirs(r0, target_dir).t)
          ELSE IF ~DecodeOk(source, rs.t[patch_file].data) THEN
              Fail(makedirs(r0, target_dir).t)
          ELSE copy_attributes_from_archive(archive_object, patch_file,
                   write(makedirs(r0, target_dir), rel_path,
                         Decode(source, rs.t[patch_file].data)),
                   rel_path),
          IF islink(rs.t, patch_file) THEN FALSE
          ELSE IF isdir(rs.t, patch_file) THEN
              LchownDenied(archive_object, patch_file,
                           makedirs(r0, rel_path), rel_path)
          ELSE IF ~isfile(rs.t, patch_file) THEN FALSE
          ELSE IF ~DecodeOk(source, rs.t[patch_file].data) THEN FALSE
          ELSE LchownDenied(archive_object, patch_file,
                            write(makedirs(r0, target_dir), rel_path,
                                  Decode(source, rs.t[patch_file].data)),
                            rel_path))

\* What _apply_file_delta does to the staging directory and to the target
\* directory; old is the tree of old_root, or no tree when old_root is an
\* archive file.
ApplyFileDelta(archive_object, patch_file, old, target_root, staging_dir) ==
    ApplyFileDeltaTarget(archive_object, patch_file, old, target_root,
        expand(archive_object, fs[archive_object.root], patch_file,
               Ok(staging_dir)))

\* The tree behind old_root as the tasks of apply see it.
OldTree ==
    IF KindOnDisk(args.old_dir) = "dir" THEN fs[args.old_dir] ELSE NoTree

\* The task _apply_file_delta, run by a thread of the pool.
apply_file_delta ==
    \E i \in DOMAIN tasks :
        /\ tasks[i].st = "running"
        /\ tasks[i].fn = "_apply_file_delta"
        /\ \E d \in {ApplyFileDelta(archives.patch, tasks[i].arg, OldTree,
                                    fs[args.target_dir], fs.delta_expanded)} :
              /\ fs' = [fs EXCEPT !.delta_expanded = d.staging,
                                  ![args.target_dir] = d.target]
              /\ tasks' = [tasks EXCEPT
                              ![i].st = IF d.ok THEN "done" ELSE "failed"]
              /\ log' = log \cup d.dec
        /\ UNCHANGED <<kind, cpus, args, pc, archives, todo, shut, env, calls>>

\* The task remove_item, first part: lexists and isdir of the path.
remove_item_stat ==
    \E i \in DOMAIN tasks :
        /\ tasks[i].st = "running"
        /\ tasks[i].fn = "remove_item"
        /\ tasks[i].aux = ""
        /\ LET t == fs[args.target_dir]
               deleted_item == tasks[i].arg
           IN tasks' = [tasks EXCEPT ![i] =
                 IF ~lexists(t, deleted_item) THEN [@ EXCEPT !.st = "done"]
                 ELSE IF isdir(t, deleted_item) THEN [@ EXCEPT !.aux = "rmdir"]
                 ELSE [@ EXCEPT !.aux = "remove"]]
        /\ UNCHANGED <<fs, kind, cpus, args, pc, archives, todo, shut, env,
                       calls, log>>

\* The task remove_item, second part: rmdir, whose OSError is swallowed,
\* or remove, whose OSError is not.
remove_item_unlink ==
    \E i \in DOMAIN tasks :
        /\ tasks[i].st = "running"
        /\ tasks[i].fn = "remove_item"
        /\ tasks[i].aux # ""
        /\ \E r \in {IF tasks[i].aux = "rmdir"
                     THEN rmdir(Ok(fs[args.target_dir]), tasks[i].arg)
                     ELSE remove(Ok(fs[args.target_dir]), tasks[i].arg)} :
              /\ fs' = [fs EXCEPT ![args.target_dir] = r.t]
              /\ tasks' = [tasks EXCEPT
                              ![i].st = IF r.ok \/ tasks[i].aux = "rmdir"
                                        THEN "done" ELSE "failed"]
        /\ UNCHANGED <<kind, cpus, args, pc, archives, todo, shut, env,
                       calls, log>>

\* apply after join_all: the archives are closed and the staging directory
\* is removed.
apply_cleanup ==
    /\ pc = "joined"
    /\ args.action = "apply"
    /\ fs' = [fs EXCEPT !.delta_expanded = NoTree]
    /\ archives' = [a \in DOMAIN archives |-> Closed]
    /\ pc' = "applied"
    /\ UNCHANGED <<kind, cpus, args, todo, tasks, shut, env, calls, log>>

\* A caller opens the snapshot B with XDeltaArchive and has an extraction
\* directory for it.
open_archive ==
    /\ pc = "start"
    /\ args' = [NoArgs EXCEPT !.action = "expand"]
    /\ \E new \in Opened("B") : archives' = [archives EXCEPT !.new = new]
    /\ \E out \in env.extraction : fs' = [fs EXCEPT !.new_src = out]
    /\ pc' = "opened"
    /\ UNCHANGED <<kind, cpus, todo, tasks, shut, env, calls, log>>

\* The caller calls expand(key, extraction_path) once, with the root key
\* or with a key of the listing.
expand_call ==
    /\ pc = "opened"
    /\ \E key \in {"."} \cup DOMAIN archives.new.ent :
       \E r \in {expand(archives.new, fs.B, key, Ok(fs.new_src))} :
          /\ fs' = [fs EXCEPT !.new_src = r.t]
          /\ pc' = IF r.ok THEN "expanded" ELSE "failed"
          /\ log' = log \cup {Event("expand", key, FALSE)}
    /\ UNCHANGED <<kind, cpus, args, archives, todo, tasks, shut, env, calls>>

\* A thread enters XDelta3TarImpl.expand(key, extraction_path) on the
\* adapter of B.
expand_enter ==
    /\ pc = "opened"
    /\ Len(tasks) < MaxExpandCalls
    /\ \E key \in DOMAIN archives.new.ent :
          tasks' = Append(tasks, [Task("expand", "expand", key)
                                     EXCEPT !.st = "running"])
    /\ UNCHANGED <<fs, kind, cpus, args, pc, archives, todo, shut, env,
                   calls, log>>

\* A lock that any thread may take at any time.
LockFreeAlways(lock, thread) == TRUE

\* RLock.acquire returns for a thread when no other thread owns the lock.
LockFree(lock, thread) == lock.owner \in {0, thread}

\* _acquire_lock: before extract for a regular file, in _safe_makedirs for
\* a link or a directory.
acquire_lock ==
    \E i \in DOMAIN tasks :
        /\ tasks[i].fn = "expand" /\ tasks[i].st = "running"
        /\ tasks[i].aux = ""
        /\ LockFree(archives.new.lock, i)
        /\ archives' = [archives EXCEPT !.new.lock =
                           [owner |-> i, count |-> @.count + 1]]
        /\ tasks' = [tasks EXCEPT ![i].aux = "held"]
        /\ UNCHANGED <<fs, kind, cpus, args, pc, todo, shut, env, calls, log>>

\* The entry a thread in expand is expanding is a regular file.
ExpandsFile(i) ==
    /\ archives.new.ent[tasks[i].arg].is_file
    /\ ~archives.new.ent[tasks[i].arg].is_link

\* archive_object.extract(member, extraction_path) begins to read the
\* member from the archive handle.
tar_extract_begin ==
    \E i \in DOMAIN tasks :
        /\ tasks[i].fn = "expand" /\ tasks[i].aux = "held"
        /\ ExpandsFile(i)
        /\ tasks' = [tasks EXCEPT ![i].aux = "reading"]
        /\ UNCHANGED <<fs, kind, cpus, args, pc, archives, todo, shut, env,
                       calls, log>>

\* archive_object.extract returns or raises.
tar_extract_end ==
    \E i \in DOMAIN tasks :
        /\ tasks[i].fn = "expand" /\ tasks[i].aux = "reading"
        /\ \E r \in {ExpandTar(archives.new.ent[tasks[i].arg], fs.B,
                               tasks[i].arg, Ok(fs.new_src))} :
              /\ fs' = [fs EXCEPT !.new_src = r.t]
              /\ tasks' = [tasks EXCEPT
                              ![i].aux = IF r.ok THEN "read" ELSE "raised"]
        /\ UNCHANGED <<kind, cpus, args, pc, archives, todo, shut, env,
                       calls, log>>

\* _safe_makedirs, makedirs(target_dir, exist_ok=True) with the lock held:
\* when it raises the thread leaves expand without releasing the lock.
safe_makedirs ==
    \E i \in DOMAIN tasks :
        /\ tasks[i].fn = "expand" /\ tasks[i].aux = "held"
        /\ ~ExpandsFile(i)
        /\ \E r \in {makedirs(Ok(fs.new_src),
                              IF archives.new.ent[tasks[i].arg].is_link
                              THEN ParentKey(tasks[i].arg)
                              ELSE tasks[i].arg)} :
              /\ fs' = [fs EXCEPT !.new_src = r.t]
              /\ tasks' = [tasks EXCEPT ![i] =
                              IF r.ok THEN [@ EXCEPT !.aux = "made"]
                              ELSE [@ EXCEPT !.st = "failed"]]
        /\ UNCHANGED <<kind, cpus, args, pc, archives, todo, shut, env,
                       calls, log>>

\* _release_lock: in the finally clause after extract, and at the end of
\* _safe_makedirs.  A link is still to be made after it.
release_lock ==
    \E i \in DOMAIN tasks :
        /\ tasks[i].fn = "expand" /\ tasks[i].st = "running"
        /\ tasks[i].aux \in {"read", "raised", "made"}
        /\ archives.new.lock.owner = i
        /\ archives' = [archives EXCEPT !.new.lock =
                           IF @.count = 1 THEN Unlocked
                           ELSE [@ EXCEPT !.count = @ - 1]]
        /\ tasks' = [tasks EXCEPT ![i] =
                        IF tasks[i].aux = "raised" THEN [@ EXCEPT !.st = "failed"]
                        ELSE IF archives.new.ent[tasks[i].arg].is_link
                        THEN [@ EXCEPT !.aux = "link"]
                        ELSE [@ EXCEPT !.st = "done"]]
        /\ UNCHANGED <<fs, kind, cpus, args, pc, todo, shut, env, calls, log>>

\* symlink(file_obj.link_target, link_path), without the lock.
tar_symlink ==
    \E i \in DOMAIN tasks :
        /\ tasks[i].fn = "expand" /\ tasks[i].st = "running"
        /\ tasks[i].aux = "link"
        /\ \E r \in {symlink(Ok(fs.new_src),
                             archives.new.ent[tasks[i].arg].link_target,
                             tasks[i].arg)} :
              /\ fs' = [fs EXCEPT !.new_src = r.t]
              /\ tasks' = [tasks EXCEPT
                              ![i].st = IF r.ok THEN "done" ELSE "failed"]
        /\ UNCHANGED <<kind, cpus, args, pc, archives, todo, shut, env,
                       calls, log>>

\* Threads that call expand on one tar adapter, step by step.
NextLock ==
    \/ open_archive
    \/ expand_enter
    \/ acquire_lock
    \/ tar_extract_begin
    \/ tar_extract_end
    \/ safe_makedirs
    \/ release_lock
    \/ tar_symlink

\* A caller writes the directory A into a new zip archive B with
\* XDelta3ZipImpl(B, for_writing=True).create(A) and closes it.
zip_create ==
    /\ pc = "start"
    /\ kind.B = "none"
    /\ args' = [NoArgs EXCEPT !.action = "create"]
    /\ \E order \in WalkOrders(Walk(fs.A)) :
       \E r \in {ZipCreate(Walk(fs.A), order)} :
          /\ fs' = [fs EXCEPT !.B = r.t]
          /\ pc' = IF r.ok THEN "created" ELSE "failed"
    /\ kind' = [kind EXCEPT !.B = "zip"]
    /\ UNCHANGED <<cpus, archives, todo, tasks, shut, env, calls, log>>

\* The caller opens the archive it has written: XDelta3ZipImpl.__init__
\* lists the members, which raises at a member whose directory has none.
zip_open ==
    /\ pc = "created"
    /\ IF ZipUnlisted(fs.B) # {}
       THEN /\ pc' = "failed"
            /\ log' = log \cup {Event("KeyError", k, FALSE) :
                                   k \in ZipUnlisted(fs.B)}
            /\ UNCHANGED <<fs, archives>>
       ELSE /\ pc' = "opened"
            /\ \E new \in Opened("B") :
                  archives' = [archives EXCEPT !.new = new]
            /\ \E out \in env.extraction : fs' = [fs EXCEPT !.new_src = out]
            /\ log' = log \cup {Event("open", "B", FALSE)}
    /\ UNCHANGED <<kind, cpus, args, todo, tasks, shut, env, calls>>

\* A caller that writes a zip archive and then reads it.
NextZip == zip_create \/ zip_open \/ expand_call

\* What a caller of the adapters alone does.
NextExpand ==
    \/ open_archive
    \/ expand_call

Next ==
    \/ run_diff
    \/ add_task
    \/ join_all_shutdown
    \/ join_all_raise
    \/ join_all_return
    \/ TaskStart
    \/ find_file_delta
    \/ diff_package
    \/ run_apply
    \/ apply_file_delta
    \/ remove_item_stat
    \/ remove_item_unlink
    \/ apply_cleanup

\* What the invocations of a run may be given: by default a privileged
\* POSIX process that applies into a fresh directory T or in place over A,
\* a second time from the same process or from a new one, with a codec
\* that does not fail and nothing at the output path of diff; diff is run
\* by root, and root may change the owner of a path; apply is given no
\* root_patch_dir.
Privileged ==
    [ignore_euid |-> {FALSE}, os_name |-> {"posix"}, euid |-> {0},
     target_dir |-> {"T", "A"}, metadata |-> {FALSE}, fresh |-> BOOLEAN,
     codec_fail |-> {FALSE}, bundle |-> NoTree, diff_euid |-> {0},
     cap_chown |-> {TRUE}, root_patch_dir |-> {""},
     extraction |-> {EmptyDir(MkdtempMode)}]

\* Every pair of an old and a new snapshot.
SnapshotPairs == OldSnapshots \X NewSnapshots

\* Both snapshots are directories.
Init == InitWith({"dir"}, {"dir"}, SnapshotPairs, Privileged)

\* Each snapshot is a directory, a tar archive or a zip archive.
InitAdapters ==
    InitWith(AdapterKinds, AdapterKinds, SnapshotPairs,
             [Privileged EXCEPT !.fresh = {FALSE}])

\* The new snapshot is the old one: diff(T, T).
InitSame ==
    InitWith({"dir"}, {"dir"}, {<<t, t>> : t \in OldSnapshots},
             [Privileged EXCEPT !.fresh = {FALSE}])

\* Every user and platform, with and without --ignore-euid.
InitRun ==
    InitWith({"dir"}, {"dir"}, SnapshotPairs,
             [Privileged EXCEPT !.ignore_euid = BOOLEAN,
                                !.os_name = {"posix", "nt"},
                                !.euid = {0, 1000},
                                !.fresh = {FALSE}])

\* A bundle of an earlier diff that is at the output path.
StaleBundle ==
    (PATCH_FOLDER :> DirNode(DefaultDirMode)) @@
    (join(PATCH_FOLDER, "stale") :>
        FileNode(Encode(NoSource, "c1"), DefaultFileMode))

\* diff is given a metadata file or none, its output path holds a bundle
\* already, and lib/xdelta3 may exit with a non-zero code.
InitOutputs ==
    InitWith({"dir"}, {"dir"}, SnapshotPairs,
             [Privileged EXCEPT !.metadata = BOOLEAN,
                                !.codec_fail = BOOLEAN,
                                !.bundle = StaleBundle,
                                !.fresh = {FALSE}])

\* Old snapshots of regular files and directories.
PlainSnapshots ==
    Trees({FileNode("c1", DefaultFileMode)}, {DirNode(DefaultDirMode)})

\* New snapshots that belong to a user other than root, where a file may
\* have no permission bit set.
AttributeSnapshots ==
    {OwnedBy(t, 1000) :
        t \in Trees({FileNode("c1", m) : m \in {0} \cup FileModes}
                      \cup {LinkNode("t1")},
                    {DirNode(m) : m \in DirModes})}

\* diff is run by root or by another user; apply is run by root with or
\* without --ignore-euid, on a host that lets root change owners or not.
InitAttributes ==
    InitWith({"dir"}, {"dir"}, PlainSnapshots \X AttributeSnapshots,
             [Privileged EXCEPT !.ignore_euid = BOOLEAN,
                                !.diff_euid = {0, 1000},
                                !.cap_chown = BOOLEAN,
                                !.fresh = {FALSE}])

\* New snapshots where the directory d holds two entries, s and t.
SiblingSnapshots ==
    {("." :> DirNode(DefaultDirMode)) @@ ("d" :> DirNode(448)) @@
     (join("d", "s") :> x) @@ (join("d", "t") :> y) :
        x \in {DirNode(448), FileNode("c1", 384)},
        y \in {DirNode(320), LinkNode("t1")}}

\* Tar archives that hold d/f, a file, a link or a directory, and no
\* member for the directory d.
SparseSnapshots ==
    {("." :> DirNode(DefaultDirMode)) @@ (join("d", "f") :> x) :
        x \in {FileNode("c1", 384), LinkNode("t1"), DirNode(448)}}

\* The new snapshot is a directory or a tar archive; only an archive can
\* lack the directory of one of its members.
InitLayouts ==
    /\ InitWith({"dir"}, {"dir", "tar"},
                PlainSnapshots \X (SiblingSnapshots \cup SparseSnapshots),
                [Privileged EXCEPT !.fresh = {FALSE}])
    /\ kind.B = "dir" => \A p \in Keys(fs.B) : ParentKey(p) \in DOMAIN fs.B

\* New snapshots where the name of the directory d begins the name of its
\* sibling ds.
PrefixSnapshots ==
    {("." :> DirNode(DefaultDirMode)) @@ ("d" :> DirNode(448)) @@
     (join("d", "s") :> x) @@ y :
        x \in {FileNode("c2", 384), LinkNode("t1")},
        y \in {"ds" :> FileNode("c2", 384), "ds" :> LinkNode("t1"),
               ("ds" :> DirNode(448)) @@
               (join("ds", "f") :> FileNode("c2", 384))}}

\* apply is given no root_patch_dir or the root_patch_dir d.
InitSubPath ==
    InitWith({"dir"}, {"dir"}, PlainSnapshots \X PrefixSnapshots,
             [Privileged EXCEPT !.root_patch_dir = {"", "d"},
                                !.fresh = {FALSE}])

\* Old snapshots with symbolic links: the directory d is empty or holds a
\* file or a link to d itself, and beside it there may be a link l to d,
\* to the root of the snapshot, or to nothing.
LinkedSnapshots ==
    {("." :> DirNode(DefaultDirMode)) @@ ("d" :> DirNode(DefaultDirMode)) @@
     x @@ y :
        x \in {NoTree, join("d", "s") :> FileNode("c1", DefaultFileMode),
               join("d", "l") :> LinkNode(".")},
        y \in {NoTree} \cup {"l" :> LinkNode(target) :
                                target \in {"d", ".", "t1"}}}

\* New snapshots for them: nothing, or the directory d and a link l to it.
LinkedNewSnapshots ==
    {EmptyDir(DefaultDirMode),
     ("." :> DirNode(DefaultDirMode)) @@ ("d" :> DirNode(448)) @@
     ("l" :> LinkNode("d"))}

\* Both snapshots are directories that hold symbolic links.
InitLinks ==
    InitWith({"dir"}, {"dir"}, LinkedSnapshots \X LinkedNewSnapshots,
             [Privileged EXCEPT !.fresh = {FALSE}])

\* The snapshot B that a caller of the adapters opens, of every kind.
InitExpand ==
    InitWith({"dir"}, AdapterKinds,
             {<<EmptyDir(DefaultDirMode), b>> : b \in NewSnapshots},
             [Privileged EXCEPT !.fresh = {FALSE}])

\* An extraction directory that already holds a regular file at d.
OccupiedDir == EmptyDir(MkdtempMode) @@ ("d" :> FileNode("c1", DefaultFileMode))

\* The snapshot B is a tar archive that several threads expand, into an
\* empty directory or into one that holds a file.
InitLock ==
    InitWith({"dir"}, {"tar"},
             {<<EmptyDir(DefaultDirMode), b>> : b \in NewSnapshots},
             [Privileged EXCEPT !.fresh = {FALSE},
                                !.extraction = {EmptyDir(MkdtempMode),
                                                OccupiedDir}])

\* A directory that holds a regular file and a symbolic link to it.
FileLinkSnapshots ==
    {("." :> DirNode(DefaultDirMode)) @@ ("d" :> FileNode("c1", 384)) @@
     ("l" :> LinkNode("d"))}

\* The directory A is written into a zip archive at the new path B.
InitZip ==
    InitWith({"dir"}, {"none"},
             {<<a, NoTree>> :
                 a \in NewSnapshots \cup LinkedSnapshots \cup FileLinkSnapshots},
             [Privileged EXCEPT !.fresh = {FALSE}])

Spec == Init /\ [][Next]_vars

SpecZip == InitZip /\ [][NextZip]_vars

SpecLock == InitLock /\ [][NextLock]_vars

SpecExpand == InitExpand /\ [][NextExpand]_vars

SpecLinks == InitLinks /\ [][Next]_vars

SpecSubPath == InitSubPath /\ [][Next]_vars

SpecLayouts == InitLayouts /\ [][Next]_vars

SpecAttributes == InitAttributes /\ [][Next]_vars

SpecOutputs == InitOutputs /\ [][Next]_vars

SpecAdapters == InitAdapters /\ [][Next]_vars

SpecSame == InitSame /\ [][Next]_vars

SpecRun == InitRun /\ [][Next]_vars

(***************************************************************************)
(* Properties.                                                             *)
(***************************************************************************)
\* The invocation under way is the first apply of the run.
FirstApply == args.action = "apply" /\ calls = 1
InPlace == args.target_dir = args.old_dir
IntoFresh == args.target_dir = "T"

\* Every regular file of b is in t with its content and permission bits,
\* every symbolic link of b is in t with its target.
SameFilesAndLinks(t, b) ==
    \A p \in Keys(b) :
        /\ b[p].kind = "file" =>
              /\ lexists(t, p)
              /\ t[p].kind = "file"
              /\ t[p].data = b[p].data
              /\ t[p].mode = b[p].mode
        /\ b[p].kind = "link" =>
              /\ lexists(t, p)
              /\ t[p].kind = "link"
              /\ t[p].data = b[p].data

\* t and b hold the same paths, each of the same kind, with the same
\* content or link target.
SameTree(t, b) ==
    /\ Keys(t) = Keys(b)
    /\ \A p \in Keys(b) : t[p].kind = b[p].kind /\ t[p].data = b[p].data

\* C1 (round trip): whatever adapter holds each snapshot, diff and then
\* apply into the empty target T end without a failure, and T then holds
\* every regular file of B with its content and permission bits and every
\* symbolic link of B with its target.
C1_RoundTrip ==
    /\ (args.action = "diff" => pc # "failed")
    /\ (FirstApply /\ IntoFresh) =>
          /\ pc # "failed"
          /\ \A i \in Futures("apply") : tasks[i].st # "failed"
          /\ (pc = "applied" => SameFilesAndLinks(fs.T, fs.B))

\* C2 (removal completeness): once apply has joined all its tasks, the
\* relative paths in the target are exactly the relative paths of B,
\* directories and empty directories included.
C2_RemovalCompleteness ==
    (FirstApply /\ pc \in {"joined", "applied"}) =>
        Keys(fs[args.target_dir]) = Keys(fs.B)

\* C3 (in-place apply): an apply whose target is the old directory ends
\* with no task failed, and leaves the tree that applying the same bundle
\* to the same old directory leaves in an empty target.
C3_InPlaceApply ==
    /\ (FirstApply /\ InPlace) =>
          /\ pc # "failed"
          /\ \A i \in Futures("apply") : tasks[i].st # "failed"
    /\ (/\ args.action = "apply" /\ InPlace /\ pc = "applied"
        /\ calls = 2 /\ fs.T # NoTree) =>
          [p \in Keys(fs.A) |-> fs.A[p]] = [p \in Keys(fs.T) |-> fs.T[p]]

\* C4 (in-place idempotence): applying diff(T, T) over T itself ends
\* without an error and leaves the paths of T, the content of every file
\* and the target of every link as they were.
C4_InPlaceIdempotence ==
    (FirstApply /\ InPlace) =>
        /\ pc # "failed"
        /\ \A i \in Futures("apply") : tasks[i].st # "failed"
        /\ (pc = "applied" => SameTree(fs.A, fs.B))

\* C5 (empty-source encode): when the old snapshot is empty no encode and
\* no decode is given a source, and apply into T leaves T equal to B.
C5_EmptySource ==
    (Keys(fs.A) = {} /\ args.action # "" /\ ~InPlace) =>
        /\ \A e \in log : e.op \in {"encode", "decode"} => ~e.source
        /\ (FirstApply /\ IntoFresh /\ pc = "applied") =>
              /\ SameTree(fs.T, fs.B)
              /\ SameFilesAndLinks(fs.T, fs.B)

\* C6 (nested removal): once an in-place apply has joined all its tasks,
\* no path of the old snapshot that the new snapshot lacks exists in the
\* target, whatever the pool width and the interleaving of the tasks.
C6_NestedRemoval ==
    (FirstApply /\ InPlace /\ pc = "joined") =>
        \A p \in Range(archives.old.keys) :
            p \notin DOMAIN fs.B => ~lexists(fs[args.target_dir], p)

\* A removal task, and a path below a directory.
IsRemoval(t) == t.fn = "remove_item"
Descendant(p, d) == startswith(p, d \o sep)

\* C7 (path-length removal order): a removal task of a descendant of a
\* directory D is submitted before the removal task of D: of two submitted
\* removal tasks the descendant comes first, and no descendant of a
\* submitted one is still waiting to be submitted.
C7_RemovalOrder ==
    /\ \A i, j \in DOMAIN tasks :
          (/\ IsRemoval(tasks[i]) /\ IsRemoval(tasks[j])
           /\ tasks[i].call = tasks[j].call
           /\ Descendant(tasks[i].arg, tasks[j].arg)) => i < j
    /\ \A i \in DOMAIN tasks, k \in DOMAIN todo :
          (/\ IsRemoval(tasks[i]) /\ IsRemoval(todo[k])
           /\ tasks[i].call = calls) =>
              ~Descendant(todo[k].arg, tasks[i].arg)

\* Removal tasks for a directory, for a directory in it and for a file in
\* that one have all been submitted.
C7_Witness ==
    \E i, j, k \in DOMAIN tasks :
        /\ IsRemoval(tasks[i]) /\ IsRemoval(tasks[j]) /\ IsRemoval(tasks[k])
        /\ tasks[i].call = tasks[j].call /\ tasks[j].call = tasks[k].call
        /\ Descendant(tasks[i].arg, tasks[j].arg)
        /\ Descendant(tasks[j].arg, tasks[k].arg)

\* C8 (join_all drains on failure): when join_all raises, every task
\* submitted to the runner has finished: none is running, none is queued.
C8_JoinAllDrains ==
    [][join_all_raise => \A i \in Futures(Runner) : Finished(i)]_vars

\* C9 (join_all normal completion): join_all returns only when every task
\* submitted to the runner has completed, and a runner on which join_all
\* has been called accepts no further task.
C9_JoinAllCompletes ==
    [][/\ join_all_return =>
              \A i \in Futures(Runner) : tasks[i].st = "done"
       /\ \A r \in shut \cap shut' :
              {i \in DOMAIN tasks' : tasks'[i].runner = r} = Futures(r)
      ]_vars

\* join_all has returned for apply and a later apply of the same process
\* has had its first task refused.
C9_Witness ==
    /\ \E e \in log : e.op = "refused"
    /\ "apply" \in shut
    /\ Futures("apply") # {}
    /\ \A i \in Futures("apply") : tasks[i].st = "done"

\* The events of the invocation that run_apply begins.
NewEvents == log' \ log

\* C10 (privilege precondition on POSIX): an apply that is neither told to
\* ignore the euid nor run by euid 0 fails before an archive is opened, a
\* staging directory made or the target directory made or changed; with
\* ignore_euid set or euid 0 the check passes.
C10_PrivilegePrecondition ==
    [][(run_apply /\ args'.os_name = "posix") =>
          IF ~args'.ignore_euid /\ args'.euid # 0
          THEN /\ pc' = "failed"
               /\ fs' = fs
               /\ archives' = archives
               /\ \A e \in NewEvents : e.op \notin {"open", "mkdtemp"}
          ELSE \A e \in NewEvents : e.op # "denied"
      ]_vars

\* An unprivileged apply has been turned away on POSIX, after a diff that
\* left a bundle.
C10_Witness ==
    /\ pc = "failed"
    /\ args.action = "apply" /\ args.os_name = "posix"
    /\ ~args.ignore_euid /\ args.euid # 0
    /\ \E e \in log : e.op = "denied" /\ e.call = calls
    /\ fs.bundle # NoTree

\* C11 (privilege check skipped off POSIX): on the platform "nt" no apply
\* is turned away by check_euid, whatever ignore_euid is.
C11_SkippedOffPosix ==
    [][(run_apply /\ args'.os_name = "nt") =>
          \A e \in NewEvents : e.op # "denied"]_vars

\* C12 (bundle mirrors the new snapshot): a bundle that diff has written
\* holds, for every entry of B below the root, an entry of the same kind at
\* xdelta/<relative path>: files, links, directories, empty ones included.
C12_BundleMirrors ==
    fs.bundle # NoTree =>
        \A p \in Keys(fs.B) :
            /\ lexists(fs.bundle, join(PATCH_FOLDER, p))
            /\ fs.bundle[join(PATCH_FOLDER, p)].kind = fs.B[p].kind

\* A member of the bundle that is the patch root or lies below it.
InPatchRoot(p) ==
    p = delta_patch_root \/ startswith(p, delta_patch_root \o sep)

C14_CodecFailureFatal ==
    \A e \in log :
        e.op = "XDELTA FAIL" =>
            /\ args.action = "diff"
            /\ \E i \in Futures("diff") :
                  tasks[i].arg = e.file /\ tasks[i].st = "failed"
            /\ pc \in {"add", "join", "failed"}
            /\ fs.bundle = env.bundle

\* diff has raised out of join_all after the codec failed for one file
\* while the task of another entry had completed.
C14_Witness ==
    /\ args.action = "diff" /\ pc = "failed"
    /\ \E e \in log : e.op = "XDELTA FAIL"
    /\ \E i \in Futures("diff") : tasks[i].st = "done"

\* C15 (AlreadyExists on output): with a file at the output path, diff
\* does not complete and the file stays as it was.
C15_AlreadyExists ==
    env.bundle # NoTree => (pc # "diffed" /\ fs.bundle = env.bundle)

\* C16 (metadata copy from the bundle entry): once an apply has joined its
\* tasks, every file and directory of the target that has an entry in the
\* bundle carries the permission bits the entry records, bits 0 included,
\* and the uid and gid the entry records, root included, unless lchown was
\* denied.
C16_AttributesFromBundle ==
    (FirstApply /\ pc = "joined") =>
        \A k \in DOMAIN archives.patch.ent :
            (/\ InPatchRoot(k)
             /\ ~archives.patch.ent[k].is_link
             /\ lexists(fs[args.target_dir], relpath(k, delta_patch_root))) =>
                /\ archives.patch.ent[k].permissions # NoPermissions =>
                      fs[args.target_dir][relpath(k, delta_patch_root)].mode
                          = archives.patch.ent[k].permissions
                /\ (/\ archives.patch.ent[k].uid # NoId
                    /\ archives.patch.ent[k].gid # NoId
                    /\ \A e \in log : ~(e.op = "PermissionError" /\ e.file = k))
                      =>
                      /\ fs[args.target_dir][relpath(k, delta_patch_root)].uid
                            = archives.patch.ent[k].uid
                      /\ fs[args.target_dir][relpath(k, delta_patch_root)].gid
                            = archives.patch.ent[k].gid

\* C17 (ownership-restore error policy): when lchown has been denied in an
\* apply task, the task has completed normally if ignore_euid is set; if it
\* is not set the task has failed and join_all does not return normally.
C17_OwnershipErrorPolicy ==
    \A e \in log :
        (e.op = "PermissionError" /\ e.call = calls) =>
            /\ args.action = "apply"
            /\ \E i \in Futures("apply") :
                  /\ tasks[i].arg = e.file
                  /\ tasks[i].call = e.call
                  /\ tasks[i].st = IF args.ignore_euid THEN "done" ELSE "failed"
            /\ ~args.ignore_euid => pc \in {"add", "join", "failed"}

\* Without ignore_euid an apply has raised out of join_all after lchown
\* was denied in one of its tasks.
C17_Witness ==
    /\ args.action = "apply" /\ ~args.ignore_euid /\ pc = "failed"
    /\ \E e \in log : e.op = "PermissionError" /\ e.call = calls

\* C18 (diff directory metadata): once diff has joined its tasks, every
\* directory staged below xdelta carries the mode of the directory of B at
\* the same relative path, whatever the interleaving of the tasks was.
C18_StagedDirectoryMode ==
    (args.action = "diff" /\ pc = "joined") =>
        \A p \in Keys(fs.B) :
            (/\ fs.B[p].kind = "dir"
             /\ lexists(fs.target, join(PATCH_FOLDER, p))) =>
                /\ fs.target[join(PATCH_FOLDER, p)].kind = "dir"
                /\ fs.target[join(PATCH_FOLDER, p)].mode = fs.B[p].mode

RECURSIVE DiffInOrder(_, _)
\* The staging directories after the tasks of diff have run one after the
\* other in the order of names, from the staging directories d.
DiffInOrder(names, d) ==
    IF names = << >> THEN d
    ELSE DiffInOrder(Tail(names),
                     FindFileDelta(Head(names), archives.old, archives.new,
                                   d.old_src, d.new_src, d.target, FALSE))

\* The staging directories as diff makes them.
FreshStaging ==
    [old_src |-> OwnedBy(EmptyDir(MkdtempMode), Euid),
     new_src |-> OwnedBy(EmptyDir(MkdtempMode), Euid),
     target |-> OwnedBy(makedirs(Ok(EmptyDir(MkdtempMode)), PATCH_FOLDER).t,
                        Euid)]

\* C19 (diff order independence): once diff has joined its tasks the
\* staged patch tree is the one that running the tasks one after the other
\* in submission order leaves, whatever order the pool ran them in.
C19_DiffOrderIndependence ==
    (args.action = "diff" /\ pc = "joined") =>
        fs.target = DiffInOrder(archives.new.keys, FreshStaging).target

\* The files and links that expand(key) of an adapter puts into an empty
\* extraction directory.
Extracted(adapter, key) ==
    {p \in Keys(expand(adapter, fs[adapter.root], key,
                       Ok(EmptyDir(MkdtempMode))).t) :
        expand(adapter, fs[adapter.root], key,
               Ok(EmptyDir(MkdtempMode))).t[p].kind # "dir"}

\* The files and links of the staging directories that a task writes.
StagedBy(t) ==
    IF t.fn = "_find_file_delta"
    THEN {<<"new_src", p>> : p \in Extracted(archives.new, t.arg)} \cup
         {<<"old_src", p>> :
             p \in IF t.arg \in DOMAIN archives.old.ent
                   THEN Extracted(archives.old, t.arg) ELSE {}}
    ELSE IF t.fn = "_apply_file_delta"
    THEN {<<"delta_expanded", p>> : p \in Extracted(archives.patch, t.arg)}
    ELSE {}

\* C20 (disjoint staging writes): while diff or apply runs its tasks, no
\* two tasks of the call write a file or a symbolic link at the same path
\* of a staging directory.
C20_DisjointStagingWrites ==
    pc \in {"add", "join"} =>
        \A i, j \in Futures(Runner) :
            (i # j /\ tasks[i].call = calls /\ tasks[j].call = calls) =>
                StagedBy(tasks[i]) \cap StagedBy(tasks[j]) = {}

\* C21 (patch partition): once apply has submitted its tasks, the bundle
\* entries it has submitted apply tasks for are exactly the entries that
\* are the patch root or lie below it, also when root_patch_dir is given.
C21_PatchPartition ==
    (args.action = "apply" /\ pc = "join") =>
        {tasks[i].arg : i \in {j \in Futures("apply") :
                                  /\ tasks[j].call = calls
                                  /\ tasks[j].fn = "_apply_file_delta"}}
            = {k \in Range(archives.patch.keys) : InPatchRoot(k)}

\* A key of the tree of a directory that names a path outside of it: the
\* directory that holds it, or a path reached through that one.
Outside(k) == k = ".." \/ startswith(k, ".." \o sep)

\* C30 (target containment): no path that apply has made or written lies
\* outside the target directory, whatever the bundle holds and whatever
\* root_patch_dir is.
C30_TargetContainment ==
    \A n \in {"T", "A"} : \A k \in DOMAIN fs[n] : ~Outside(k)

\* The tasks of the apply under way that run fn.
ApplyTasks(fn) ==
    {i \in Futures("apply") : tasks[i].call = calls /\ tasks[i].fn = fn}

\* The relative paths of the bundle entries apply has submitted tasks for.
PatchedPaths ==
    {relpath(tasks[i].arg, delta_patch_root) :
        i \in ApplyTasks("_apply_file_delta")}

\* C22 (removal set): once apply has submitted its tasks, every entry of
\* the old listing whose relative path is not the path of a patch has
\* exactly one removal task, an entry whose path is the path of a patch has
\* none, and there is no removal task for anything else.
C22_RemovalSet ==
    (args.action = "apply" /\ pc = "join") =>
        /\ \A o \in Range(archives.old.keys) :
              Cardinality({i \in ApplyTasks("remove_item") : tasks[i].arg = o})
                  = IF o \in PatchedPaths THEN 0 ELSE 1
        /\ \A i \in ApplyTasks("remove_item") :
              tasks[i].arg \in Range(archives.old.keys)

\* apply has submitted its tasks for an old snapshot of which one entry is
\* in the patch and another one is not.
C22_Witness ==
    /\ args.action = "apply" /\ pc = "join"
    /\ ApplyTasks("remove_item") # {}
    /\ Range(archives.old.keys) \cap PatchedPaths # {}

\* A removal task of the apply under way that ends in this step.
RemovalEnds(i) ==
    /\ tasks[i].fn = "remove_item" /\ tasks[i].call = calls
    /\ tasks[i].st = "running"
    /\ tasks'[i].st \in {"done", "failed"}

\* What the removal of path p should leave of tree t: nothing at p when p
\* is a file, a link or an empty directory, and t as it is otherwise.
Removable(t, p) ==
    /\ lexists(t, p)
    /\ (t[p].kind = "dir" => Below(t, p) = {})

\* C23 (removal task effect): a removal task ends without raising; when
\* its path is a regular file, a symbolic link, whatever the link points
\* to, or an empty directory the path is gone afterwards, and when it is a
\* directory that is not empty or a path that does not exist the target
\* is left as it was.
C23_RemovalEffect ==
    [][\A i \in DOMAIN tasks :
          RemovalEnds(i) =>
              /\ tasks'[i].st = "done"
              /\ IF Removable(fs[args.target_dir], tasks[i].arg)
                 THEN ~lexists(fs'[args.target_dir], tasks[i].arg)
                 ELSE fs'[args.target_dir] = fs[args.target_dir]
      ]_vars

\* The listing that the filesystem adapter made of the snapshot named n,
\* while diff runs: diff changes neither snapshot.
ListingOf(n) == IF n = "A" THEN archives.old ELSE archives.new

\* C28 (symlinks are leaves): the listing of a directory snapshot has each
\* path of the snapshot once and no other path; a symbolic link, also one
\* that points at a directory or at a directory above itself, is a file
\* entry with is_link set that has no listing of its own and nothing
\* listed below it.
C28_SymlinksAreLeaves ==
    (args.action = "diff" /\ pc \in {"add", "join", "joined"}) =>
        \A n \in {"A", "B"} :
            kind[n] = "dir" =>
                /\ Range(ListingOf(n).keys) = Keys(fs[n])
                /\ Len(ListingOf(n).keys) = Cardinality(Keys(fs[n]))
                /\ \A k \in Keys(fs[n]) :
                      fs[n][k].kind = "link" =>
                          /\ ListingOf(n).ent[k].is_file
                          /\ ListingOf(n).ent[k].is_link
                          /\ ~ListingOf(n).ent[k].is_dir
                          /\ k \notin DOMAIN ListingOf(n).children
                          /\ \A q \in Range(ListingOf(n).keys) :
                                ~startswith(q, k \o sep)

\* diff has listed an old snapshot in which the link d/l points at the
\* directory d that holds it, and a link l at the root of the snapshot.
C28_Witness ==
    /\ args.action = "diff" /\ pc = "join"
    /\ islink(fs.A, join("d", "l")) /\ isdir(fs.A, join("d", "l"))
    /\ islink(fs.A, "l") /\ fs.A["l"].data = "."
    /\ join("d", "l") \in Range(archives.old.keys)

\* C24 (parent-exists invariant): in the listing of a tar or zip archive
\* every key below the top level has the path of its directory as a key,
\* also when the archive has no member for that directory.
C24_ParentExists ==
    \A a \in {"old", "new", "patch"} :
        archives[a].kind \in {"tar", "zip"} =>
            \A k \in DOMAIN archives[a].ent :
                dirname(k) # "" => dirname(k) \in DOMAIN archives[a].ent

\* C25 (root expand): when expand has returned for the root key, whatever
\* the adapter, every entry of the snapshot is in the extraction directory
\* with its kind, the entries below directories included; and expand of
\* the root key does return.
C25_RootExpand ==
    \A e \in log :
        (e.op = "expand" /\ e.file = ".") =>
            /\ pc = "expanded"
            /\ \A p \in Keys(fs.B) :
                  /\ lexists(fs.new_src, p)
                  /\ fs.new_src[p].kind = fs.B[p].kind

\* The threads that are reading a member from the handle of the adapter.
Reading == {i \in DOMAIN tasks : tasks[i].fn = "expand" /\ tasks[i].aux = "reading"}

\* C26 (tar handle mutual exclusion): at every moment at most one thread
\* is reading from the archive handle of a tar adapter, however many
\* threads are in expand on that adapter, and that thread owns the lock.
C26_TarHandleExclusion ==
    /\ Cardinality(Reading) <= 1
    /\ \A i \in Reading : archives.new.lock.owner = i

\* One thread is reading a member while two more threads that are to
\* extract regular files wait for the lock.
C26_Witness ==
    /\ Cardinality(Reading) = 1
    /\ Cardinality({i \in DOMAIN tasks :
                       /\ tasks[i].fn = "expand" /\ tasks[i].st = "running"
                       /\ tasks[i].aux = "" /\ ExpandsFile(i)}) = 2

\* The staging directories that diff and apply make with mkdtemp.
StagingDirs == {"target", "old_src", "new_src", "delta_expanded"}

\* C27 (staging release on all exit paths): when diff or apply has ended,
\* by returning or by raising, no staging directory is left.
C27_StagingReleased ==
    pc \in {"diffed", "applied", "failed"} =>
        \A s \in StagingDirs : fs[s] = NoTree

\* C29 (encode/decode source symmetry): the first apply gives the decode
\* of a file a source file exactly when diff gave the encode of that file
\* a source file.
C29_SourceSymmetry ==
    \A e \in log, d \in log :
        (e.op = "encode" /\ d.op = "decode" /\ d.call = 1 /\ e.file = d.file)
            => (d.source <=> e.source)

\* The threads that have left expand, by returning or by raising.
LeftExpand ==
    {i \in DOMAIN tasks : tasks[i].fn = "expand" /\ tasks[i].st \in {"done", "failed"}}

\* C31 (lock release): a thread that has left expand on a tar adapter, by
\* returning or by raising, does not own the lock of the adapter.
C31_LockRelease ==
    \A i \in LeftExpand : archives.new.lock.owner # i

\* C32 (runner reuse): every call of diff or apply in one process has a
\* runner that takes its submissions, and the futures its join_all waits
\* for are the tasks of that call.
C32_RunnerReuse ==
    /\ \A e \in log : e.op # "refused"
    /\ pc = "join" => \A i \in Futures(Runner) : tasks[i].call = calls

\* The regular files create finds in the source directory.
SourceFiles == {k \in Keys(fs.A) : ~isdir(fs.A, k) /\ isfile(fs.A, k)}

\* C33 (zip create/enumerate round trip): a zip archive that create has
\* written is enumerated without error, and the mapping holds every file
\* of the source tree.
C33_ZipRoundTrip ==
    args.action = "create" =>
        /\ \A e \in log : e.op # "KeyError"
        /\ pc \in {"opened", "expanded"} =>
              SourceFiles \subseteq DOMAIN archives.new.ent

=============================================================================
